---- MODULE Spec2Model ----
(***************************************************************************)
(* Model of the dataset cache of foundry-dev-tools-container               *)
(* (t3_code/utility/functions_dataset.py): the websocket session get(),    *)
(* its heartbeat task, version resolution over the metadata ledger, the    *)
(* download of a dataset and the ledger append.                            *)
(*                                                                         *)
(* Every session runs on one asyncio event loop: a coroutine is atomic     *)
(* between two awaits that suspend, so each action below is the code from  *)
(* one suspension point to the next.  Work sent to the thread pool         *)
(* (asyncio.to_thread) is the step taken when its await resumes.           *)
(***************************************************************************)
EXTENDS Integers, Sequences, FiniteSets, TLC

(* ---------------------------------------------------------------- bounds *)

\* timestamps are points 1..MaxDate of one naive-UTC time line
MaxDate == 5
\* versions of a ledger record drawn by the resolution specification
MaxVersions == 2
\* heartbeats one session may send
MaxKeepalive == 1
\* the clock runs from its initial value up to MaxClock
MaxClock == 3
\* rows per batch (functions_dataset.py:23 sets 1000000; scaled)
DOWNLOAD_BATCHSIZE == 2

(* ------------------------------------------------------------- the world *)

Sessions == {"s1", "s2"}
\* foundry_con.datasets: the configured name -> rid table
Datasets == [A |-> "ridA", B |-> "ridB"]
Rids == {"ridA", "ridB"}
\* names a client may ask for; "X" is not configured
Names == {"A", "B", "X"}

\* a raw file is its sequence of rows; a row is its id column
Contents == {<<>>, <<1, 2>>, <<1, 2, 3>>}

VARIABLES
  pc,         \* position of get() of each session
  sending,    \* the main routine is inside websocket.send_json
  ka,         \* state of the _websocket_keepalive task
  kaCount,    \* heartbeats sent
  lock,       \* holder of websocket._send_lock
  connected,  \* the client is still there
  sent,       \* events delivered to the client, in order
  req,        \* the initial request: the window, the rids of its names
  todo,       \* name_rid_pairs still to process (head: current)
  results,    \* the results list of get()
  loc,        \* locals of get_single_dataset / download_dataset
  ledger,     \* METADATA_DIR/<rid>.json
  csv,        \* UNZIPPED_DIR/<sha256>.csv that exist
  zip,        \* ZIPPED_DIR/<sha256>.zip that exist
  entries,    \* the archives among them that hold a .csv entry
  extract,    \* DATASET_ROOT/temp_extract_<sha256> directories that exist
  tmp,        \* UNZIPPED_DIR/tmp_<rid>_<timestamp>.csv: path -> content
  now,        \* the clock
  remote,     \* the Foundry datasets: rid -> rows, id column
  env,        \* which faults the environment can produce
  hist        \* history: fetches issued, versions appended and by whom,
              \* rids two sessions worked on at the same time

vars == <<pc, sending, ka, kaCount, lock, connected, sent, req, todo, results,
          loc, ledger, csv, zip, entries, extract, tmp, now, remote, env, hist>>

(* ------------------------------------------------------- pure operators *)

\* hashlib.sha256 over the file: distinct contents give distinct digests
ComputeFileSha256(content) == <<"sha256", content>>

\* v["dates"][-1]
LastDate(v) == v.dates[Len(v.dates)]

\* position of a new element in a list sorted descending, after its ties
InsertStable(sorted, v) ==
  LET k == Cardinality({i \in 1..Len(sorted) : LastDate(sorted[i]) >= LastDate(v)})
  IN  SubSeq(sorted, 1, k) \o <<v>> \o SubSeq(sorted, k + 1, Len(sorted))

SortVersionsSkipped(vs) == vs
RECURSIVE SortVersions(_)
\* list.sort(key = last date, reverse=True): descending, ties keep their order
SortVersions(vs) ==
  IF vs = <<>> THEN <<>>
  ELSE InsertStable(SortVersions(SubSeq(vs, 1, Len(vs) - 1)), vs[Len(vs)])

\* the versions get_versions returns for a ledger record
GetVersions(rec) ==
  IF rec.state = "ok" THEN SortVersions(rec.versions) ELSE <<>>

InWindowExclusive(d, from, to) == from < d /\ d < to
\* date_start_dt <= date <= date_end_dt
InWindow(d, from, to) == from <= d /\ d <= to

\* date_end if given, else datetime.now
WindowEnd(to, clock) == IF to = 0 THEN clock ELSE to

\* the list comprehension of get_filtered_versions
FilteredVersions(vs, from, to) ==
  SelectSeq(vs, LAMBDA v : \E i \in 1..Len(v.dates) : InWindow(v.dates[i], from, to))

\* get_first_filtered_version: None is <<>>, a version v is <<v>>
FirstFilteredVersion(vs, from, to) ==
  LET f == FilteredVersions(vs, from, to)
  IN  IF f = <<>> THEN <<>> ELSE <<f[1]>>

(* ------------------------------------------------------------ the ledger *)

NoFile == [state |-> "absent", versions |-> <<>>]

\* the version dict download_dataset builds
NewVersion(sha, date) ==
  [sha256 |-> sha, dates |-> <<date>>, unzipped |-> TRUE, zipped |-> TRUE]

AddVersionFromStaleRead(s, rid, version) ==
  [state |-> "ok", versions |-> SortVersions(Append(loc[s].seen, version))]
AddVersionWithoutDates(s, rid, version) ==
  [state |-> "ok",
   versions |-> Append(ledger[rid].versions, [version EXCEPT !.dates = <<>>])]
\* add_metadata + add_version_to_metadata: the record written for rid
AddVersionToMetadata(s, rid, version) ==
  IF ledger[rid].state = "absent"
  THEN [state |-> "ok", versions |-> <<version>>]
  ELSE [state |-> "ok",
        versions |-> SortVersions(Append(ledger[rid].versions, version))]

\* unzipped_path.exists()
RawExists(sha) == sha \in csv

(* ------------------------------------------------------- session helpers *)

NoLocals ==
  [seen |-> <<>>, version |-> <<>>, sha |-> <<>>, row_count |-> 0, i |-> 0,
   num |-> 0, path |-> <<>>, df |-> <<>>, ok |-> FALSE]

Ev(type, success) == [type |-> type, success |-> success]

\* what get() appends to results: the checksum returned, or the exception
Returned(sha) == [ok |-> TRUE, sha |-> <<sha>>]
Failed == [ok |-> FALSE, sha |-> <<>>]

\* the rid get_single_dataset is working on
Rid(s) == Head(todo[s])

\* get_valid_rids: the configured names, in request order
RECURSIVE ValidRids(_)
ValidRids(names) ==
  IF names = <<>> THEN <<>>
  ELSE IF Head(names) \in DOMAIN Datasets
       THEN <<Datasets[Head(names)]>> \o ValidRids(Tail(names))
       ELSE ValidRids(Tail(names))

ValidNamesAll(names) == names
\* get_valid_rids: name_rid_pairs.keys(), the configured names of the request
RECURSIVE ValidNames(_)
ValidNames(names) ==
  IF names = <<>> THEN <<>>
  ELSE IF Head(names) \in DOMAIN Datasets
       THEN <<Head(names)>> \o ValidNames(Tail(names))
       ELSE ValidNames(Tail(names))

\* get_valid_rids: not_found, the names its message calls unknown
RECURSIVE NotFound(_)
NotFound(names) ==
  IF names = <<>> THEN <<>>
  ELSE IF Head(names) \in DOMAIN Datasets
       THEN NotFound(Tail(names))
       ELSE <<Head(names)>> \o NotFound(Tail(names))

\* the coroutine goes on to position p with locals l
Step(s, p, l) ==
  /\ pc' = [pc EXCEPT ![s] = p]
  /\ loc' = [loc EXCEPT ![s] = l]
  /\ UNCHANGED <<results, todo>>

FinishAbortsOnFailure(s, res) ==
  /\ results' = [results EXCEPT ![s] = Append(@, res)]
  /\ todo' = [todo EXCEPT ![s] = Tail(@)]
  /\ loc' = [loc EXCEPT ![s] = NoLocals]
  /\ pc' = [pc EXCEPT ![s] = IF Tail(todo[s]) = <<>> \/ ~res.ok
                              THEN "send_final" ELSE "gv_read"]
\* get_single_dataset ends (returns or raises): the loop of get() records
\* the outcome and goes to the next dataset, or to the final event
Finish(s, res) ==
  /\ results' = [results EXCEPT ![s] = Append(@, res)]
  /\ todo' = [todo EXCEPT ![s] = Tail(@)]
  /\ loc' = [loc EXCEPT ![s] = NoLocals]
  /\ pc' = [pc EXCEPT ![s] = IF Tail(todo[s]) = <<>> THEN "send_final" ELSE "gv_read"]

\* the last lines of get_single_dataset, up to the test of the raw file:
\* the file is there and the routine goes on to its return, or it raises
ReturnChecksum(s, sha) ==
  IF RawExists(sha)
  THEN Step(s, "ret", [loc[s] EXCEPT !.sha = <<sha>>])
  ELSE Finish(s, Failed)

AfterResolveAlwaysDownloads(s, l) == Step(s, "dl_start", l)
\* after resolution: a version was found, or the download starts
AfterResolve(s, l) ==
  IF l.version = <<>>
  THEN Step(s, "dl_start", l)
  ELSE IF ~l.version[1].unzipped
       THEN Step(s, "unzip", [l EXCEPT !.sha = <<l.version[1].sha256>>])
       ELSE ReturnChecksum(s, l.version[1].sha256)

\* open(tmp_csv_path, 'w') / to_csv: the file holds exactly these rows
WriteTmp(path, rows) ==
  [p \in DOMAIN tmp \cup {path} |-> IF p = path THEN rows ELSE tmp[p]]

\* open(tmp_csv_path, 'a'): the rows are added to the file (created if missing)
AppendTmp(path, rows) ==
  [p \in DOMAIN tmp \cup {path} |->
     IF p = path THEN (IF path \in DOMAIN tmp THEN tmp[path] ELSE <<>>) \o rows
     ELSE tmp[p]]

\* f"tmp_{rid}_{now:%Y%m%d_%H%M%S}.csv"
TmpPath(rid, clock) == <<rid, clock>>

(* ------------------------------------------------------------ the sends *)

SendPcs ==
  {"send_error", "send_ack", "send_neutral", "send_found", "dl_start",
   "dl_norows", "dl_batches", "dl_batch", "dl_all", "dl_written", "dl_done",
   "dl_zipfail", "dl_fail", "send_final", "exc_final"}

\* the sends that go through send_message and its lock
LockedPcs ==
  {"send_error", "send_ack", "dl_zipfail", "dl_fail", "send_final", "exc_final"}

SendEvent(p) ==
  CASE p = "send_error"   -> Ev("error", FALSE)
    [] p = "send_neutral" -> Ev("neutral", FALSE)
    [] p = "dl_norows"    -> Ev("final", FALSE)
    [] p = "dl_zipfail"   -> Ev("update", FALSE)
    [] p = "dl_fail"      -> Ev("update", FALSE)
    [] p = "send_final"   -> Ev("final", TRUE)
    [] p = "exc_final"    -> Ev("final", FALSE)
    [] OTHER              -> Ev("update", TRUE)

\* the payload of a send of get(): the error event carries the message of
\* get_valid_rids, which names the unknown names; the acknowledgement
\* carries the resolved names in its datasets field
SessionEvent(s) ==
  CASE pc[s] = "send_error" ->
         [type |-> "error", success |-> FALSE, unknown |-> NotFound(req[s].names)]
    [] pc[s] = "send_ack" ->
         [type |-> "update", success |-> TRUE, datasets |-> ValidNames(req[s].names)]
    [] OTHER -> SendEvent(pc[s])

\* the code that follows a send that succeeded, up to the next await
AfterSendOk(s) ==
  LET p == pc[s]
      l == loc[s]
  IN  CASE p \in {"send_error", "send_final"} ->
             Step(s, "finally", l) /\ UNCHANGED tmp
        [] p = "exc_final" -> Step(s, "close", l) /\ UNCHANGED tmp
        [] p = "send_ack" -> Step(s, "gv_read", l) /\ UNCHANGED tmp
        [] p \in {"send_neutral", "send_found"} ->
             AfterResolve(s, l) /\ UNCHANGED tmp
        [] p = "dl_start" -> Step(s, "dl_count", l) /\ UNCHANGED tmp
        [] p \in {"dl_norows", "dl_zipfail", "dl_fail"} ->
             Finish(s, Failed) /\ UNCHANGED tmp
        [] p = "dl_batches" -> Step(s, "dl_batch", l) /\ UNCHANGED tmp
        [] p = "dl_batch" -> Step(s, "dl_batch_query", l) /\ UNCHANGED tmp
        [] p = "dl_all" -> Step(s, "dl_all_query", l) /\ UNCHANGED tmp
        [] p = "dl_written" ->
             /\ tmp' = WriteTmp(TmpPath(Rid(s), now), l.df)
             /\ Step(s, "dl_done", [l EXCEPT !.path = <<TmpPath(Rid(s), now)>>])
        [] p = "dl_done" -> Step(s, "dl_sha", l) /\ UNCHANGED tmp

\* the code that follows a send that raised WebSocketDisconnect
AfterSendRaise(s) ==
  LET p == pc[s]
      l == loc[s]
  IN  CASE p \in {"send_error", "send_ack", "send_final", "exc_final"} ->
             Step(s, "finally", l)
        [] p \in {"send_neutral", "send_found", "dl_start", "dl_fail"} ->
             Finish(s, Failed)
        [] OTHER -> Step(s, "dl_fail", l)

(* -------------------------------------------------------------- get() *)

filesVars == <<ledger, csv, zip, entries, extract, tmp>>
worldVars == <<now, remote, env>>
wsVars == <<sending, ka, kaCount, lock, connected, sent>>

\* the event loop runs one coroutine at a time: a step of session s on the
\* loop is taken while no other session is between the test of its raw file
\* and its return
LoopFree(s) == \A o \in Sessions \ {s} : pc[o] # "ret"

\* websocket.accept(), the send lock, the heartbeat task
Accept(s) ==
  /\ LoopFree(s)
  /\ pc[s] = "idle"
  /\ pc' = [pc EXCEPT ![s] = "receive"]
  /\ connected' = [connected EXCEPT ![s] = TRUE]
  /\ lock' = [lock EXCEPT ![s] = "free"]
  /\ ka' = [ka EXCEPT ![s] = "sleeping"]
  /\ UNCHANGED <<sending, kaCount, sent, req, todo, results, loc, hist>>
  /\ UNCHANGED <<filesVars, worldVars>>

\* is another session between its request and its return
InFlight(s) == pc[s] \notin {"idle", "receive", "returned"}

\* receive_json, get_valid_rids, from_dt / to_dt
Receive(s, nameLists, windows) ==
  /\ LoopFree(s)
  /\ pc[s] = "receive"
  /\ IF ~connected[s]
     THEN /\ pc' = [pc EXCEPT ![s] = "finally"]
          /\ UNCHANGED <<req, todo, hist>>
     ELSE \E names \in nameLists \cup {<<"malformed">>}, w \in windows :
            IF names = <<"malformed">>
            THEN /\ pc' = [pc EXCEPT ![s] = "exc_final"]
                 /\ UNCHANGED <<req, todo, hist>>
            ELSE /\ req' = [req EXCEPT ![s] =
                       [from |-> w.from, to |-> w.to, rids |-> ValidRids(names),
                        names |-> names]]
                 /\ todo' = [todo EXCEPT ![s] = ValidRids(names)]
                 /\ pc' = [pc EXCEPT ![s] =
                       IF ValidRids(names) = <<>> THEN "send_error" ELSE "send_ack"]
                 /\ hist' = [hist EXCEPT !.together = [r \in Rids |->
                       \/ @[r]
                       \/ /\ \E i \in 1..Len(ValidRids(names)) : ValidRids(names)[i] = r
                          /\ \E o \in Sessions \ {s} :
                               /\ InFlight(o)
                               /\ \E i \in 1..Len(req[o].rids) : req[o].rids[i] = r]]
  /\ UNCHANGED <<wsVars, results, loc, filesVars, worldVars>>

\* the main routine enters websocket.send_json, through the lock or not
SendEnter(s) ==
  /\ LoopFree(s)
  /\ pc[s] \in SendPcs
  /\ ~sending[s]
  /\ IF pc[s] \in LockedPcs
     THEN lock[s] = "free" /\ lock' = [lock EXCEPT ![s] = "main"]
     ELSE UNCHANGED lock
  /\ sending' = [sending EXCEPT ![s] = TRUE]
  /\ UNCHANGED <<pc, ka, kaCount, connected, sent, req, todo, results, loc, hist>>
  /\ UNCHANGED <<filesVars, worldVars>>

\* websocket.send_json returns, or raises because the client is gone
SendExit(s) ==
  /\ LoopFree(s)
  /\ pc[s] \in SendPcs
  /\ sending[s]
  /\ sending' = [sending EXCEPT ![s] = FALSE]
  /\ IF pc[s] \in LockedPcs
     THEN lock' = [lock EXCEPT ![s] = "free"]
     ELSE UNCHANGED lock
  /\ IF connected[s]
     THEN /\ sent' = [sent EXCEPT ![s] = Append(@, SessionEvent(s))]
          /\ AfterSendOk(s)
     ELSE /\ UNCHANGED <<sent, tmp>>
          /\ AfterSendRaise(s)
  /\ UNCHANGED <<ka, kaCount, connected, req, hist, ledger, csv, zip, entries, extract,
               worldVars>>

\* get_versions reads the record; get_filtered_versions filters it
GvRead(s) ==
  /\ LoopFree(s)
  /\ pc[s] = "gv_read"
  /\ LET vs == GetVersions(ledger[Rid(s)])
         l  == [loc[s] EXCEPT !.seen = vs]
     IN  IF vs = <<>>
         THEN Step(s, "send_neutral", l)
         ELSE Step(s, "send_found",
                [l EXCEPT !.version =
                   FirstFilteredVersion(vs, req[s].from, WindowEnd(req[s].to, now))])
  /\ UNCHANGED <<wsVars, req, hist, filesVars, worldVars>>

RmTreeSkipped(dirs, sha) == dirs
\* shutil.rmtree(temp_extract_dir, ignore_errors=True)
RmTree(dirs, sha) == dirs \ {sha}

\* _unzip_dataset_sync: what it returns, and the raw files and extraction
\* directories it leaves.  A missing archive returns before the directory is
\* made; an archive without a .csv entry is extracted, the directory
\* removed, and the raw file not touched; else the raw file is replaced by
\* the entry, and the finally block removes the directory
UnzipDatasetSync(sha) ==
  IF sha \notin zip
  THEN [ok |-> FALSE, csv |-> csv, extract |-> extract]
  ELSE LET made == extract \cup {sha}
       IN  IF sha \notin entries
           THEN [ok |-> FALSE, csv |-> csv,
                 extract |-> RmTree(RmTree(made, sha), sha)]
           ELSE [ok |-> TRUE, csv |-> (csv \ {sha}) \cup {sha},
                 extract |-> RmTree(made, sha)]

\* _unzip_dataset_sync in the thread pool
Unzip(s) ==
  /\ pc[s] = "unzip"
  /\ LET r == UnzipDatasetSync(loc[s].sha[1])
     IN  /\ csv' = r.csv
         /\ extract' = r.extract
         /\ Step(s, "unzip_ret", [loc[s] EXCEPT !.ok = r.ok])
  /\ UNCHANGED <<wsVars, req, hist, ledger, zip, entries, tmp, worldVars>>

\* get_single_dataset resumes after unzip_dataset
UnzipReturn(s) ==
  /\ LoopFree(s)
  /\ pc[s] = "unzip_ret"
  /\ IF loc[s].ok THEN ReturnChecksum(s, loc[s].sha[1]) ELSE Finish(s, Failed)
  /\ UNCHANGED <<wsVars, req, hist, filesVars, worldVars>>

\* return sha256: the loop of get() appends the checksum to results.  The
\* test of the raw file and this return are one step of the event loop, but
\* work that other sessions have handed to the thread pool runs beside it:
\* the actions Unzip, DlUnlink, DlMove and DlZip are not held by LoopFree
Return(s) ==
  /\ LoopFree(s)
  /\ pc[s] = "ret"
  /\ Finish(s, Returned(loc[s].sha[1]))
  /\ UNCHANGED <<wsVars, req, hist, filesVars, worldVars>>

(* --------------------------------------------------- download_dataset *)

\* a query of the Foundry SQL server returns, or raises
RemoteOutcomes == IF env.remoteFails THEN {"ok", "fail"} ELSE {"ok"}
\* zipfile.ZipFile(...).write returns, or raises
ZipOutcomes == IF env.zipFails THEN {"ok", "fail"} ELSE {"ok"}

\* one more SELECT * of the rows of rid was issued
CountFetch(rid) == [hist EXCEPT !.fetches[rid] = @ + 1]

DlCountNoEmptyTest(s) ==
  /\ LoopFree(s)
  /\ pc[s] = "dl_count"
  /\ \E o \in RemoteOutcomes :
       LET n == Len(remote[Rid(s)].rows)
           l == [loc[s] EXCEPT !.row_count = n]
       IN  IF o = "fail" THEN Step(s, "dl_fail", loc[s])
           ELSE IF n > DOWNLOAD_BATCHSIZE THEN Step(s, "dl_probe", l)
           ELSE Step(s, "dl_all", l)
  /\ UNCHANGED <<wsVars, req, hist, filesVars, worldVars>>
\* SELECT COUNT(*): row_count, and the branch on it
DlCount(s) ==
  /\ LoopFree(s)
  /\ pc[s] = "dl_count"
  /\ \E o \in RemoteOutcomes :
       LET n == Len(remote[Rid(s)].rows)
           l == [loc[s] EXCEPT !.row_count = n]
       IN  IF o = "fail" THEN Step(s, "dl_fail", loc[s])
           ELSE IF n = 0 THEN Step(s, "dl_norows", l)
           ELSE IF n > DOWNLOAD_BATCHSIZE THEN Step(s, "dl_probe", l)
           ELSE Step(s, "dl_all", l)
  /\ UNCHANGED <<wsVars, req, hist, filesVars, worldVars>>

\* SELECT * ... LIMIT 1: is there an id column; num_batches
DlProbe(s) ==
  /\ LoopFree(s)
  /\ pc[s] = "dl_probe"
  /\ \E o \in RemoteOutcomes :
       IF o = "fail" THEN Step(s, "dl_fail", loc[s])
       ELSE IF remote[Rid(s)].hasId
            THEN Step(s, "dl_batches",
                   [loc[s] EXCEPT !.i = 0,
                      !.num = (loc[s].row_count \div DOWNLOAD_BATCHSIZE) + 1])
            ELSE Step(s, "dl_all", loc[s])
  /\ UNCHANGED <<wsVars, req, hist, filesVars, worldVars>>

\* WHERE id > offset AND id <= offset + limit
BatchRows(rows, i) ==
  SelectSeq(rows, LAMBDA id : /\ id > i * DOWNLOAD_BATCHSIZE
                              /\ id <= i * DOWNLOAD_BATCHSIZE + DOWNLOAD_BATCHSIZE)

DlBatchQueryIgnoresFailure(s) ==
  /\ LoopFree(s)
  /\ pc[s] = "dl_batch_query"
  /\ hist' = IF loc[s].i = 0 THEN CountFetch(Rid(s)) ELSE hist
  /\ \E o \in RemoteOutcomes :
       LET l    == loc[s]
           rows == IF o = "fail" THEN <<>> ELSE BatchRows(remote[Rid(s)].rows, l.i)
           path == IF l.i = 0 THEN TmpPath(Rid(s), now) ELSE l.path[1]
           nxt  == IF l.i + 1 < l.num THEN "dl_batch" ELSE "dl_done"
       IN  /\ tmp' = IF l.i = 0 THEN WriteTmp(path, rows) ELSE AppendTmp(path, rows)
           /\ Step(s, nxt, [l EXCEPT !.i = @ + 1, !.path = <<path>>])
  /\ UNCHANGED <<wsVars, req, ledger, csv, zip, entries, extract, worldVars>>
DlBatchQueryStopsAfterFirst(s) ==
  /\ LoopFree(s)
  /\ pc[s] = "dl_batch_query"
  /\ hist' = IF loc[s].i = 0 THEN CountFetch(Rid(s)) ELSE hist
  /\ \E o \in RemoteOutcomes :
       LET l    == loc[s]
           rows == BatchRows(remote[Rid(s)].rows, l.i)
           path == IF l.i = 0 THEN TmpPath(Rid(s), now) ELSE l.path[1]
       IN  IF o = "fail"
           THEN Step(s, "dl_fail", l) /\ UNCHANGED tmp
           ELSE /\ tmp' = IF l.i = 0 THEN WriteTmp(path, rows) ELSE AppendTmp(path, rows)
                /\ Step(s, "dl_done", [l EXCEPT !.i = @ + 1, !.path = <<path>>])
  /\ UNCHANGED <<wsVars, req, ledger, csv, zip, entries, extract, worldVars>>
\* batch i is fetched and written to the temporary file
DlBatchQuery(s) ==
  /\ LoopFree(s)
  /\ pc[s] = "dl_batch_query"
  /\ hist' = IF loc[s].i = 0 THEN CountFetch(Rid(s)) ELSE hist
  /\ \E o \in RemoteOutcomes :
       LET l    == loc[s]
           rows == BatchRows(remote[Rid(s)].rows, l.i)
           path == IF l.i = 0 THEN TmpPath(Rid(s), now) ELSE l.path[1]
           nxt  == IF l.i + 1 < l.num THEN "dl_batch" ELSE "dl_done"
       IN  IF o = "fail"
           THEN Step(s, "dl_fail", l) /\ UNCHANGED tmp
           ELSE /\ tmp' = IF l.i = 0 THEN WriteTmp(path, rows) ELSE AppendTmp(path, rows)
                /\ Step(s, nxt, [l EXCEPT !.i = @ + 1, !.path = <<path>>])
  /\ UNCHANGED <<wsVars, req, ledger, csv, zip, entries, extract, worldVars>>

\* SELECT * of the whole table
DlAllQuery(s) ==
  /\ LoopFree(s)
  /\ pc[s] = "dl_all_query"
  /\ hist' = CountFetch(Rid(s))
  /\ \E o \in RemoteOutcomes :
       IF o = "fail" THEN Step(s, "dl_fail", loc[s])
       ELSE Step(s, "dl_written", [loc[s] EXCEPT !.df = remote[Rid(s)].rows])
  /\ UNCHANGED <<wsVars, req, filesVars, worldVars>>

\* _compute_file_sha256 of the temporary file; new_csv_path.exists()
DlSha(s) ==
  /\ LoopFree(s)
  /\ pc[s] = "dl_sha"
  /\ LET path == loc[s].path[1]
     IN  IF path \notin DOMAIN tmp
         THEN Step(s, "dl_fail", loc[s])
         ELSE LET sha == ComputeFileSha256(tmp[path])
              IN  Step(s, IF sha \in csv THEN "dl_unlink" ELSE "dl_move",
                       [loc[s] EXCEPT !.sha = <<sha>>])
  /\ UNCHANGED <<wsVars, req, hist, filesVars, worldVars>>

\* new_csv_path.unlink(), a missing file ignored
DlUnlink(s) ==
  /\ pc[s] = "dl_unlink"
  /\ csv' = csv \ {loc[s].sha[1]}
  /\ Step(s, "dl_move", loc[s])
  /\ UNCHANGED <<wsVars, req, hist, ledger, zip, entries, extract, tmp, worldVars>>

\* shutil.move(tmp_csv_path, new_csv_path)
DlMove(s) ==
  /\ pc[s] = "dl_move"
  /\ LET path == loc[s].path[1]
     IN  IF path \notin DOMAIN tmp
         THEN Step(s, "dl_fail", loc[s]) /\ UNCHANGED <<csv, tmp>>
         ELSE /\ csv' = csv \cup {loc[s].sha[1]}
              /\ tmp' = [p \in DOMAIN tmp \ {path} |-> tmp[p]]
              /\ Step(s, "dl_zip", loc[s])
  /\ UNCHANGED <<wsVars, req, hist, ledger, zip, entries, extract, worldVars>>

\* _zip_dataset_sync in the thread pool
DlZip(s) ==
  /\ pc[s] = "dl_zip"
  /\ \E o \in ZipOutcomes :
       IF loc[s].sha[1] \in csv /\ o = "ok"
       THEN /\ zip' = zip \cup {loc[s].sha[1]}
            /\ entries' = entries \cup {loc[s].sha[1]}
            /\ Step(s, "dl_zip_ret", [loc[s] EXCEPT !.ok = TRUE])
       ELSE /\ UNCHANGED <<zip, entries>>
            /\ Step(s, "dl_zip_ret", [loc[s] EXCEPT !.ok = FALSE])
  /\ UNCHANGED <<wsVars, req, hist, ledger, csv, extract, tmp, worldVars>>

\* download_dataset resumes after zip_dataset: the version is appended to
\* the ledger, and get_single_dataset returns the checksum
DlZipReturn(s) ==
  /\ LoopFree(s)
  /\ pc[s] = "dl_zip_ret"
  /\ LET sha     == loc[s].sha[1]
         version == NewVersion(sha, now)
     IN  IF ~loc[s].ok
         THEN Step(s, "dl_zipfail", loc[s]) /\ UNCHANGED <<ledger, hist>>
         ELSE IF ledger[Rid(s)].state = "corrupt"
         THEN Step(s, "dl_fail", loc[s]) /\ UNCHANGED <<ledger, hist>>
         ELSE /\ ledger' = [ledger EXCEPT ![Rid(s)] =
                              AddVersionToMetadata(s, Rid(s), version)]
              /\ hist' = [hist EXCEPT !.appended[Rid(s)] = Append(@, version),
                                       !.appenders[Rid(s)] = Append(@, s)]
              /\ ReturnChecksum(s, sha)
  /\ UNCHANGED <<wsVars, req, csv, zip, entries, extract, tmp, worldVars>>

(* ------------------------------------------- the end of get(), heartbeat *)

\* websocket.close(code=1008) in the handler of an unexpected exception
Close(s) ==
  /\ LoopFree(s)
  /\ pc[s] = "close"
  /\ pc' = [pc EXCEPT ![s] = "finally"]
  /\ UNCHANGED <<wsVars, req, todo, results, loc, hist, filesVars, worldVars>>

\* keepalive_task.cancel(): a task that has not ended will get CancelledError
CancelKeepalive(k) ==
  IF k \in {"sleeping", "waitlock", "sending"} THEN "cancelling" ELSE k

TaskDoneNotAwaited(k) == TRUE
\* await keepalive_task returns once the task has ended
TaskDone(k) == k \in {"none", "done", "cancelled"}

\* the finally block: cancel the heartbeat, then wait for it
Finally(s) ==
  /\ LoopFree(s)
  /\ pc[s] = "finally"
  /\ ka' = [ka EXCEPT ![s] = CancelKeepalive(@)]
  /\ pc' = [pc EXCEPT ![s] = "fin_wait"]
  /\ UNCHANGED <<sending, kaCount, lock, connected, sent>>
  /\ UNCHANGED <<req, todo, results, loc, hist, filesVars, worldVars>>

\* the heartbeat has ended: delattr(websocket, "_send_lock"), get() returns
FinReturn(s) ==
  /\ LoopFree(s)
  /\ pc[s] = "fin_wait"
  /\ TaskDone(ka[s])
  /\ pc' = [pc EXCEPT ![s] = "returned"]
  /\ lock' = [lock EXCEPT ![s] = "none"]
  /\ UNCHANGED <<sending, ka, kaCount, connected, sent>>
  /\ UNCHANGED <<req, todo, results, loc, hist, filesVars, worldVars>>

\* asyncio.sleep(interval) is over: send_message takes the lock, or waits
KaWake(s) ==
  /\ LoopFree(s)
  /\ ka[s] = "sleeping"
  /\ kaCount[s] < MaxKeepalive
  /\ IF lock[s] = "free"
     THEN /\ lock' = [lock EXCEPT ![s] = "ka"]
          /\ ka' = [ka EXCEPT ![s] = "sending"]
     ELSE /\ ka' = [ka EXCEPT ![s] = "waitlock"]
          /\ UNCHANGED lock
  /\ UNCHANGED <<pc, sending, kaCount, connected, sent>>
  /\ UNCHANGED <<req, todo, results, loc, hist, filesVars, worldVars>>

\* the heartbeat gets the lock it waited for
KaAcquire(s) ==
  /\ LoopFree(s)
  /\ ka[s] = "waitlock"
  /\ lock[s] = "free"
  /\ lock' = [lock EXCEPT ![s] = "ka"]
  /\ ka' = [ka EXCEPT ![s] = "sending"]
  /\ UNCHANGED <<pc, sending, kaCount, connected, sent>>
  /\ UNCHANGED <<req, todo, results, loc, hist, filesVars, worldVars>>

\* the heartbeat's send_json returns, or raises and ends the loop: the
\* client is gone, or get() has called websocket.close, after which the
\* connection takes no more sends
KaSendExit(s) ==
  /\ LoopFree(s)
  /\ ka[s] = "sending"
  /\ lock' = [lock EXCEPT ![s] = "free"]
  /\ IF connected[s] /\ pc[s] # "close"
     THEN /\ sent' = [sent EXCEPT ![s] = Append(@, Ev("keepalive", TRUE))]
          /\ kaCount' = [kaCount EXCEPT ![s] = @ + 1]
          /\ ka' = [ka EXCEPT ![s] = "sleeping"]
     ELSE /\ ka' = [ka EXCEPT ![s] = "done"]
          /\ UNCHANGED <<sent, kaCount>>
  /\ UNCHANGED <<pc, sending, connected>>
  /\ UNCHANGED <<req, todo, results, loc, hist, filesVars, worldVars>>

\* CancelledError reaches the heartbeat at its await: the task ends
KaCancelled(s) ==
  /\ LoopFree(s)
  /\ ka[s] = "cancelling"
  /\ ka' = [ka EXCEPT ![s] = "cancelled"]
  /\ lock' = [lock EXCEPT ![s] = IF @ = "ka" THEN "free" ELSE @]
  /\ UNCHANGED <<pc, sending, kaCount, connected, sent>>
  /\ UNCHANGED <<req, todo, results, loc, hist, filesVars, worldVars>>

\* the client goes away
Disconnect(s) ==
  /\ connected[s]
  /\ pc[s] # "returned"
  /\ connected' = [connected EXCEPT ![s] = FALSE]
  /\ UNCHANGED <<pc, sending, ka, kaCount, lock, sent>>
  /\ UNCHANGED <<req, todo, results, loc, hist, filesVars, worldVars>>

\* time passes
Tick ==
  /\ now < MaxClock
  /\ now' = now + 1
  /\ UNCHANGED <<pc, wsVars, req, todo, results, loc, hist, filesVars, remote, env>>

(* ------------------------------------------------------- specifications *)

\* everything get() and download_dataset do in one session: the steps on
\* the event loop, and the file operations in the thread pool (Unzip,
\* DlUnlink, DlMove, DlZip)
Main(s, nameLists, windows) ==
  \/ Accept(s)
  \/ Receive(s, nameLists, windows)
  \/ SendEnter(s)
  \/ SendExit(s)
  \/ GvRead(s)
  \/ Unzip(s)
  \/ UnzipReturn(s)
  \/ Return(s)
  \/ DlCount(s)
  \/ DlProbe(s)
  \/ DlBatchQuery(s)
  \/ DlAllQuery(s)
  \/ DlSha(s)
  \/ DlUnlink(s)
  \/ DlMove(s)
  \/ DlZip(s)
  \/ DlZipReturn(s)
  \/ Close(s)
  \/ Finally(s)
  \/ FinReturn(s)
  \/ KaCancelled(s)

\* the heartbeat task while it is not cancelled; "finally" and "ret" are no
\* awaits of get(): the heartbeat does not run there
Heartbeat(s) ==
  /\ pc[s] \notin {"finally", "ret"}
  /\ \/ KaWake(s)
     \/ KaAcquire(s)
     \/ KaSendExit(s)

\* no session has connected yet
InitSessions ==
  /\ pc = [s \in Sessions |-> "idle"]
  /\ sending = [s \in Sessions |-> FALSE]
  /\ ka = [s \in Sessions |-> "none"]
  /\ kaCount = [s \in Sessions |-> 0]
  /\ lock = [s \in Sessions |-> "none"]
  /\ connected = [s \in Sessions |-> FALSE]
  /\ sent = [s \in Sessions |-> <<>>]
  /\ req = [s \in Sessions |-> [from |-> 1, to |-> 0, rids |-> <<>>, names |-> <<>>]]
  /\ todo = [s \in Sessions |-> <<>>]
  /\ results = [s \in Sessions |-> <<>>]
  /\ loc = [s \in Sessions |-> NoLocals]
  /\ tmp = <<>>
  /\ extract = {}
  /\ hist = [fetches |-> [r \in Rids |-> 0],
             appended |-> [r \in Rids |-> <<>>],
             appenders |-> [r \in Rids |-> <<>>],
             together |-> [r \in Rids |-> FALSE]]

\* the checksum of the two-row dataset
S12 == ComputeFileSha256(<<1, 2>>)

\* a version as an earlier fetch left it in the record
OldVersion(sha, dates, unzipped) ==
  [sha256 |-> sha, dates |-> dates, unzipped |-> unzipped, zipped |-> TRUE]

OneVersion(v) == [state |-> "ok", versions |-> <<v>>]

\* the requests of the one-session specification
NameLists == {<<"A">>, <<"X">>, <<"A", "B">>, <<"X", "A">>}
SessionWindows == {[from |-> 2, to |-> 3]}

\* One session with its heartbeat and a client that may go away.
Init ==
  /\ InitSessions
  /\ now = 2
  /\ \E rows \in Contents, hasId \in BOOLEAN :
       \* the id column is looked at only when there is more than one batch
       /\ Len(rows) <= DOWNLOAD_BATCHSIZE => hasId
       /\ remote = [r \in Rids |-> IF r = "ridA"
                                  THEN [rows |-> rows, hasId |-> hasId]
                                  ELSE [rows |-> <<1, 2>>, hasId |-> TRUE]]
  /\ env \in [remoteFails : BOOLEAN, zipFails : BOOLEAN]
  /\ \E rec \in {NoFile, OneVersion(OldVersion(S12, <<2>>, TRUE)),
                 OneVersion(OldVersion(S12, <<2>>, FALSE)),
                 OneVersion(OldVersion(S12, <<1>>, TRUE))} :
       ledger = [r \in Rids |-> IF r = "ridA" THEN rec ELSE NoFile]
  /\ csv \in SUBSET {S12}
  /\ zip \in SUBSET {S12}
  /\ entries = zip

Next ==
  \E s \in {"s1"} :
    \/ Main(s, NameLists, SessionWindows)
    \/ Heartbeat(s)
    \/ Disconnect(s)

Spec == Init /\ [][Next]_vars

(* Two sessions asking for dataset A at the same time; no heartbeat sends, *)
(* no client that goes away, no fault: the steps that touch the ledger and *)
(* the content store, in every interleaving.                               *)
\* a window that ends at 2, and one from 2 that ends now (no to_dt)
LedgerWindows == {[from |-> 1, to |-> 2], [from |-> 2, to |-> 0]}

\* the files of the checksums a record names
FilesOf(rec) == {rec.versions[i].sha256 : i \in 1..Len(rec.versions)}

InitLedger ==
  /\ InitSessions
  /\ now \in {1, 2}
  /\ \E rows \in {<<1, 2>>, <<1, 2, 3>>} :
       remote = [r \in Rids |-> [rows |-> IF r = "ridA" THEN rows ELSE <<1, 2>>,
                                 hasId |-> TRUE]]
  /\ env = [remoteFails |-> FALSE, zipFails |-> FALSE]
  /\ \E rec \in {NoFile, OneVersion(OldVersion(S12, <<1>>, TRUE)),
                 OneVersion(OldVersion(S12, <<1>>, FALSE)),
                 OneVersion(OldVersion(ComputeFileSha256(<<1>>), <<1>>, TRUE))} :
       /\ ledger = [r \in Rids |-> IF r = "ridA" THEN rec ELSE NoFile]
       /\ zip = FilesOf(rec)
       /\ entries = zip
       /\ csv = {rec.versions[i].sha256 :
                   i \in {j \in 1..Len(rec.versions) : rec.versions[j].unzipped}}

NextLedger ==
  \/ \E s \in Sessions : Main(s, {<<"A">>}, LedgerWindows)
  \/ Tick

SpecLedger == InitLedger /\ [][NextLedger]_vars

(* Version resolution alone: session s1 has sent its acknowledgement and   *)
(* is about to resolve dataset A; the record and the window are drawn from *)
(* every sorted record of at most MaxVersions versions of one or two dates *)
(* and every window over 1..MaxDate, and from the documented example.      *)
Sorted(vs) == \A i \in 1..(Len(vs) - 1) : LastDate(vs[i]) >= LastDate(vs[i + 1])

DateLists ==
  {<<d>> : d \in 1..MaxDate}
    \cup {<<d[1], d[2]>> : d \in {e \in (1..MaxDate) \X (1..MaxDate) : e[1] <= e[2]}}

ResolveLedgers ==
  {vs \in UNION {{[i \in 1..n |-> OldVersion(ComputeFileSha256(<<i>>), f[i], TRUE)] :
                    f \in [1..n -> DateLists]} : n \in 0..MaxVersions} : Sorted(vs)}

Windows == [from : 1..MaxDate, to : 0..MaxDate]

\* 1: 2025-06-01, 2: 06-10, 3: 06-15, 4: 06-20, 5: 07-01, 6: 08-01, 7: 08-31
ExampleLedger ==
  <<OldVersion(ComputeFileSha256(<<3>>), <<5>>, TRUE),
    OldVersion(ComputeFileSha256(<<2>>), <<3>>, TRUE),
    OldVersion(ComputeFileSha256(<<1>>), <<1>>, TRUE)>>
ExampleWindows == {[from |-> 2, to |-> 4], [from |-> 6, to |-> 7]}

InitResolve ==
  /\ pc = [s \in Sessions |-> IF s = "s1" THEN "gv_read" ELSE "idle"]
  /\ sending = [s \in Sessions |-> FALSE]
  /\ ka = [s \in Sessions |-> IF s = "s1" THEN "sleeping" ELSE "none"]
  /\ kaCount = [s \in Sessions |-> 0]
  /\ lock = [s \in Sessions |-> IF s = "s1" THEN "free" ELSE "none"]
  /\ connected = [s \in Sessions |-> s = "s1"]
  /\ sent = [s \in Sessions |->
              IF s = "s1"
              THEN <<[type |-> "update", success |-> TRUE, datasets |-> <<"A">>]>>
              ELSE <<>>]
  /\ todo = [s \in Sessions |-> IF s = "s1" THEN <<"ridA">> ELSE <<>>]
  /\ results = [s \in Sessions |-> <<>>]
  /\ loc = [s \in Sessions |-> NoLocals]
  /\ tmp = <<>>
  /\ extract = {}
  /\ hist = [fetches |-> [r \in Rids |-> 0],
             appended |-> [r \in Rids |-> <<>>],
             appenders |-> [r \in Rids |-> <<>>],
             together |-> [r \in Rids |-> FALSE]]
  /\ now = MaxDate
  /\ remote = [r \in Rids |-> [rows |-> <<1, 2>>, hasId |-> TRUE]]
  /\ env = [remoteFails |-> FALSE, zipFails |-> FALSE]
  /\ \E vs \in ResolveLedgers \cup {ExampleLedger} :
       /\ ledger = [r \in Rids |-> IF r = "ridA" /\ vs # <<>>
                                   THEN [state |-> "ok", versions |-> vs]
                                   ELSE NoFile]
       /\ csv = {vs[i].sha256 : i \in 1..Len(vs)}
       /\ zip = {vs[i].sha256 : i \in 1..Len(vs)}
       /\ entries = zip
       /\ \E w \in IF vs = ExampleLedger THEN ExampleWindows ELSE Windows :
            req = [s \in Sessions |->
                     IF s = "s1"
                     THEN [from |-> w.from, to |-> w.to, rids |-> <<"ridA">>,
                           names |-> <<"A">>]
                     ELSE [from |-> 1, to |-> 0, rids |-> <<>>, names |-> <<>>]]

NextResolve == GvRead("s1")

SpecResolve == InitResolve /\ [][NextResolve]_vars

(* One session on its own, client connected to the end, no heartbeat send: *)
(* the cached path and the fetch path of get_single_dataset over records   *)
(* that do not parse, archives without an entry, datasets of one, two and  *)
(* three batches, and ids with a gap.                                      *)
\* a record that exists and is not valid JSON
Corrupt == [state |-> "corrupt", versions |-> <<>>]

\* the id columns of the remote dataset
FetchContents == {<<>>, <<1, 2>>, <<1, 2, 3>>, <<1, 2, 3, 4>>, <<1, 2, 5>>}

InitFetch ==
  /\ InitSessions
  /\ now = 2
  /\ \E rows \in FetchContents, hasId \in BOOLEAN :
       /\ Len(rows) <= DOWNLOAD_BATCHSIZE => hasId
       /\ remote = [r \in Rids |-> IF r = "ridA"
                                  THEN [rows |-> rows, hasId |-> hasId]
                                  ELSE [rows |-> <<1, 2>>, hasId |-> TRUE]]
  /\ env \in [remoteFails : BOOLEAN, zipFails : {FALSE}]
  /\ \E rec \in {NoFile, Corrupt, OneVersion(OldVersion(S12, <<2>>, TRUE)),
                 OneVersion(OldVersion(S12, <<2>>, FALSE)),
                 OneVersion(OldVersion(S12, <<1>>, TRUE))} :
       ledger = [r \in Rids |-> IF r = "ridA" THEN rec ELSE NoFile]
  /\ csv \in SUBSET {S12}
  /\ zip \in SUBSET {S12}
  /\ entries \in SUBSET zip

NextFetch == Main("s1", {<<"A">>}, SessionWindows)

SpecFetch == InitFetch /\ [][NextFetch]_vars

(* --------------------------------------------------------------- claims *)

Last(seq) == seq[Len(seq)]
Count(seq, v) == Cardinality({i \in 1..Len(seq) : seq[i] = v})
RemoveAt(seq, k) == SubSeq(seq, 1, k - 1) \o SubSeq(seq, k + 1, Len(seq))

\* C1: of the events a session has sent, a "final" event is the last one:
\* there is at most one, and no update, error, keepalive or second final
\* follows it; a session that returned after its loop has sent one.
C1_OneFinalSentLast ==
  \A s \in Sessions :
    /\ \A i \in 1..Len(sent[s]) : sent[s][i].type = "final" => i = Len(sent[s])
    /\ (pc[s] = "returned" /\ connected[s] /\ results[s] # <<>>) =>
         \E i \in 1..Len(sent[s]) : sent[s][i].type = "final"

\* C2: the heartbeat task and the main routine of one session are never
\* both inside a send on the connection.
C2_SendsSerialized ==
  \A s \in Sessions : ~(sending[s] /\ lock[s] = "ka")

\* C3: once get() has returned, the heartbeat task of that session has
\* ended (it ended by itself or was cancelled) and holds no send.
C3_HeartbeatEndedAtReturn ==
  \A s \in Sessions :
    pc[s] = "returned" =>
      /\ ka[s] \in {"none", "done", "cancelled"}
      /\ lock[s] # "ka"

\* a session returned after its client went away, its heartbeat, which had
\* sent before, cancelled
C3_Witness ==
  \E s \in Sessions :
    /\ pc[s] = "returned"
    /\ ~connected[s]
    /\ ka[s] = "cancelled"
    /\ kaCount[s] > 0

\* C4: every version a session appended to the record of a rid is in that
\* record, as many times as it was appended: no append overwrites another.
C4_NoAppendLost ==
  \A r \in Rids :
    \A i \in 1..Len(hist.appended[r]) :
      Count(ledger[r].versions, hist.appended[r][i])
        >= Count(hist.appended[r], hist.appended[r][i])

\* two sessions that worked on the rid at the same time have both appended,
\* the later one after a read of the record that the earlier append outdated
C4_Witness ==
  \E r \in Rids :
    /\ hist.together[r]
    /\ Len(hist.appended[r]) = 2
    /\ hist.appenders[r][1] # hist.appenders[r][2]
    /\ Len(ledger[r].versions) >= 2

\* the windows of two requests have a point in common
Overlap(a, b) ==
  \E d \in 1..MaxClock :
    /\ InWindow(d, a.from, WindowEnd(a.to, now))
    /\ InWindow(d, b.from, WindowEnd(b.to, now))

\* C5: when two sessions ask for the same rid at the same time, with
\* overlapping windows and no version in the record, the rows are fetched
\* from the remote once and one version is added to the record.
C5_SingleFlight ==
  \A r \in Rids :
    ( /\ hist.together[r]
      /\ Len(ledger[r].versions) = Len(hist.appended[r])
      /\ \A s \in Sessions : req[s].rids = <<r>>
      /\ \A s, o \in Sessions : Overlap(req[s], req[o]) )
    => /\ hist.fetches[r] <= 1
       /\ Len(hist.appended[r]) <= 1

\* C6: no two versions of one record have the same checksum.
C6_NoDuplicateChecksum ==
  \A r \in Rids :
    \A i, j \in 1..Len(ledger[r].versions) :
      i # j => ledger[r].versions[i].sha256 # ledger[r].versions[j].sha256

\* the step appends a version v to the record of r: the record is sorted
\* descending by last date, the versions it had keep their order, and v
\* stands after the versions of the same last date
AppendKeepsOrder(r) ==
  LET v   == Last(hist.appended[r])'
      old == ledger[r].versions
      new == ledger'[r].versions
  IN  /\ \A i \in 1..(Len(new) - 1) : LastDate(new[i]) >= LastDate(new[i + 1])
      /\ \E k \in 1..Len(new) :
           /\ new[k] = v
           /\ RemoveAt(new, k) = old
           /\ \A j \in 1..(k - 1) : LastDate(new[j]) >= LastDate(v)
           /\ \A j \in (k + 1)..Len(new) : LastDate(new[j]) < LastDate(v)

\* C7: after every append the versions of the record are sorted descending
\* by the last date of each version, ties in the order they had.
C7_SortedAfterAppend ==
  [][\A r \in Rids :
       Len(hist.appended[r])' > Len(hist.appended[r]) => AppendKeepsOrder(r)]_vars

\* a record of three versions after two appends, one tied with the version
\* before it, one newer
C7_Witness ==
  \E r \in Rids :
    LET vs == ledger[r].versions
    IN  /\ Len(vs) = 3
        /\ Len(hist.appended[r]) = 2
        /\ LastDate(vs[1]) > LastDate(vs[2])
        /\ LastDate(vs[2]) = LastDate(vs[3])
        /\ vs[2] # vs[3]
        /\ vs[3] = hist.appended[r][1]

\* the versions of vs, by position, that have a date from..to
Hits(vs, from, to) ==
  {i \in 1..Len(vs) : \E k \in 1..Len(vs[i].dates) :
                        vs[i].dates[k] >= from /\ vs[i].dates[k] <= to}

\* C8: resolution gives the first version, in the order of the record,
\* that has a date inside the window, both ends included, and none when no
\* version has one; of the versions of 06-01, 06-15 and 07-01 the window
\* 06-10..06-20 gives the one of 06-15, and 08-01..08-31 gives none.
C8_FirstVersionInWindow ==
  /\ pc["s1"] \in {"send_neutral", "send_found"} =>
       LET vs   == ledger["ridA"].versions
           hits == Hits(vs, req["s1"].from, WindowEnd(req["s1"].to, now))
       IN  IF hits = {}
           THEN loc["s1"].version = <<>>
           ELSE /\ loc["s1"].version # <<>>
                /\ \E i \in hits : /\ \A j \in hits : i <= j
                                   /\ loc["s1"].version[1] = vs[i]
  /\ FirstFilteredVersion(ExampleLedger, 2, 4) = <<ExampleLedger[2]>>
  /\ FirstFilteredVersion(ExampleLedger, 6, 7) = <<>>

\* the documented example: the window 06-10..06-20 resolved to the version
\* of 06-15, the second of the record
C8_Witness ==
  /\ pc["s1"] = "send_found"
  /\ ledger["ridA"].versions = ExampleLedger
  /\ req["s1"].from = 2 /\ req["s1"].to = 4
  /\ loc["s1"].version = <<ExampleLedger[2]>>

\* C9: in the step in which get_single_dataset returns a checksum, on the
\* cached path or on the fetch path, the raw file of that checksum exists.
C9_RawExistsAtReturn ==
  [][\A s \in Sessions :
       (Len(results[s])' > Len(results[s]) /\ Last(results[s])'.ok)
         => Last(results[s])'.sha[1] \in csv']_vars

\* C10: after a session on an empty cache has returned with the checksum of
\* a version it fetched, resolution over the window of that session gives
\* that version.
C10_ResolvesAfterFetch ==
  \A s \in Sessions, r \in Rids :
    ( /\ pc[s] = "returned"
      /\ req[s].rids = <<r>>
      /\ hist.appenders[r] = <<s>>
      /\ ledger[r].versions = hist.appended[r]
      /\ results[s] = <<Returned(hist.appended[r][1].sha256)>> )
    => FirstFilteredVersion(GetVersions(ledger[r]), req[s].from,
                            WindowEnd(req[s].to, now)) = <<hist.appended[r][1]>>

\* no version of the record of r has a date in the window of session s
NoneInWindow(s, r) ==
  FirstFilteredVersion(GetVersions(ledger[r]), req[s].from,
                       WindowEnd(req[s].to, now)) = <<>>

\* C11: for a rid whose remote count is zero, no SELECT * of its rows is
\* issued, no temporary or raw file is written for it, no version is added
\* to its record, and a session that found no version in its window and
\* has processed it has recorded a failure for it.
C11_EmptyDatasetFails ==
  \A r \in Rids :
    remote[r].rows = <<>> =>
      /\ hist.fetches[r] = 0
      /\ hist.appended[r] = <<>>
      /\ \A p \in DOMAIN tmp : p[1] # r
      /\ ComputeFileSha256(<<>>) \notin csv \cup zip
      /\ \A s \in Sessions : \A i \in 1..Len(results[s]) :
           (req[s].rids[i] = r /\ NoneInWindow(s, r)) => results[s][i] = Failed

\* a connected session asked for an empty dataset that has no record, was
\* told so, and has returned with a failure for it
C11_Witness ==
  \E s \in Sessions :
    /\ pc[s] = "returned" /\ connected[s]
    /\ req[s].rids = <<"ridA">>
    /\ remote["ridA"].rows = <<>>
    /\ ledger["ridA"] = NoFile
    /\ results[s] = <<Failed>>
    /\ \E i \in 1..Len(sent[s]) : sent[s][i].type = "final" /\ ~sent[s][i].success

\* the batches 0 .. n-1 of the rows, one after the other
RECURSIVE BatchedContent(_, _)
BatchedContent(rows, n) ==
  IF n = 0 THEN <<>>
  ELSE BatchedContent(rows, n - 1) \o BatchRows(rows, n - 1)

\* the rows a download of rid r that meets no failure writes to its
\* temporary file
FetchedContent(r) ==
  LET rows == remote[r].rows
  IN  IF Len(rows) > DOWNLOAD_BATCHSIZE /\ remote[r].hasId
      THEN BatchedContent(rows, (Len(rows) \div DOWNLOAD_BATCHSIZE) + 1)
      ELSE rows

\* C12: a fetch that failed leaves the record of its rid as the session read
\* it before the fetch, with nothing appended, and every version that is
\* appended has the checksum of all the rows a download without failure
\* writes: a remote call that fails registers no version of the rows
\* fetched so far.
C12_RemoteFailureLeavesLedger ==
  /\ \A s \in Sessions :
       pc[s] = "dl_fail" =>
         /\ GetVersions(ledger[Rid(s)]) = loc[s].seen
         /\ hist.appended[Rid(s)] = <<>>
  /\ \A r \in Rids : \A i \in 1..Len(hist.appended[r]) :
       hist.appended[r][i].sha256 = ComputeFileSha256(FetchedContent(r))

\* the query of the second batch failed after the first batch was written:
\* the session has returned with a failure, the record is still absent, and
\* the rows of the first batch lie in the temporary file
C12_Witness ==
  \E s \in Sessions :
    /\ pc[s] = "returned" /\ connected[s]
    /\ results[s] = <<Failed>>
    /\ remote["ridA"].rows = <<1, 2, 3>>
    /\ ledger["ridA"] = NoFile
    /\ \E p \in DOMAIN tmp : p[1] = "ridA" /\ tmp[p] = <<1, 2>>

\* the session leaves the report of a failed compression: the identity is
\* recorded as failed
ZipFailureReported(s) ==
  /\ pc[s] = "dl_zipfail"
  /\ Len(results[s])' = Len(results[s]) + 1
  /\ Last(results[s])' = Failed

\* C13: when the compression of a fetched version has failed and the
\* failure is reported, the record of the rid holds that version, with
\* zipped false.
C13_VersionKeptWhenZipFails ==
  [][\A s \in Sessions :
       ZipFailureReported(s) =>
         \E i \in 1..Len(ledger'[Rid(s)].versions) :
           /\ ledger'[Rid(s)].versions[i].sha256 = loc[s].sha[1]
           /\ ~ledger'[Rid(s)].versions[i].zipped]_vars

\* get() is past its loop over the resolved identities
PastLoop(s) == pc[s] \in {"send_final", "finally", "fin_wait", "returned"}

\* C14: the identities of a session are processed in order, one outcome
\* recorded for each, and a session that is past its loop after it has
\* processed one identity has processed every resolved identity, whatever
\* the outcomes of the earlier ones.
C14_SiblingsProcessed ==
  \A s \in Sessions :
    req[s].rids # <<>> =>
      /\ todo[s] = SubSeq(req[s].rids, Len(results[s]) + 1, Len(req[s].rids))
      /\ (PastLoop(s) /\ results[s] # <<>>) => Len(results[s]) = Len(req[s].rids)

\* a session of two identities has returned: the first failed, the second
\* was fetched and its checksum returned
C14_Witness ==
  \E s \in Sessions :
    /\ pc[s] = "returned" /\ connected[s]
    /\ req[s].rids = <<"ridA", "ridB">>
    /\ results[s] = <<Failed, Returned(S12)>>

\* C15: in a session that has returned with its client connected, every
\* identity that failed was reported by an event with success false.
C15_FailuresReported ==
  \A s \in Sessions :
    (pc[s] = "returned" /\ connected[s]) =>
      Cardinality({i \in 1..Len(results[s]) : ~results[s][i].ok})
        <= Cardinality({i \in 1..Len(sent[s]) : ~sent[s][i].success})

\* the names of a request that are configured, in the order of the request
Resolved(names) == SelectSeq(names, LAMBDA n : n \in DOMAIN Datasets)

\* the events of a session other than heartbeats
NonKeepalive(s) == SelectSeq(sent[s], LAMBDA e : e.type # "keepalive")

\* C16: a session whose names all fail to resolve sends nothing but one
\* "error" event and does no work on any identity (no record read, no
\* remote call); a session with a resolved name works on exactly the rids
\* of the resolved names, and its first event, an "update", names exactly
\* those names in its datasets field.
C16_ResolvedSubset ==
  \A s \in Sessions :
    req[s].names # <<>> =>
      LET rs == Resolved(req[s].names)
          ev == NonKeepalive(s)
      IN  IF rs = <<>>
          THEN /\ pc[s] \in {"send_error", "finally", "fin_wait", "returned"}
               /\ Len(ev) <= 1
               /\ ev # <<>> => ev[1].type = "error"
               /\ (pc[s] = "returned" /\ connected[s]) => Len(ev) = 1
               /\ todo[s] = <<>> /\ results[s] = <<>> /\ loc[s] = NoLocals
               /\ \A r \in Rids : hist.fetches[r] = 0 /\ hist.appended[r] = <<>>
          ELSE /\ req[s].rids = [i \in 1..Len(rs) |-> Datasets[rs[i]]]
               /\ results[s] \o todo[s] # <<>>
               /\ Len(results[s]) + Len(todo[s]) = Len(rs)
               /\ ev # <<>> => /\ ev[1].type = "update"
                               /\ ev[1].datasets = rs

\* a session asked for an unknown and a configured name: its first event
\* named the configured one alone, whose dataset it then fetched
C16_Witness ==
  \E s \in Sessions :
    /\ pc[s] = "returned" /\ connected[s]
    /\ req[s].names = <<"X", "A">>
    /\ NonKeepalive(s)[1].datasets = <<"A">>
    /\ results[s] = <<Returned(S12)>>
    /\ hist.fetches["ridA"] = 1

\* C17: a session that resolved some of its names and not others, and has
\* returned with its client connected, has sent an event that names the
\* unresolved names.
C17_UnresolvedReported ==
  \A s \in Sessions :
    ( /\ pc[s] = "returned" /\ connected[s]
      /\ Resolved(req[s].names) # <<>>
      /\ Resolved(req[s].names) # req[s].names )
    => \E i \in 1..Len(sent[s]) :
         /\ "unknown" \in DOMAIN sent[s][i]
         /\ sent[s][i].unknown = NotFound(req[s].names)

\* the event types of the protocol
EventTypes == {"update", "final", "error", "keepalive"}

\* C18: every event sent on a connection has one of the types "update",
\* "final", "error", "keepalive", and a success field that is a boolean.
C18_EventTypes ==
  \A s \in Sessions : \A i \in 1..Len(sent[s]) :
    /\ sent[s][i].type \in EventTypes
    /\ sent[s][i].success \in BOOLEAN

\* in this step a send of the main routine of s raises: the client is gone
MainSendFailed(s) == sending[s] /\ ~sending[s]' /\ ~connected[s]

\* in this step the send of the heartbeat of s raises and gives up the lock
HeartbeatSendFailed(s) ==
  ka[s] = "sending" /\ lock[s] = "ka" /\ lock[s]' = "free" /\ ~connected[s]

\* the positions of get() from which it calls no send any more
NoMoreSends == {"finally", "fin_wait", "returned"}

\* C19: when a send of the main routine has failed because the client is
\* gone, get() is at its end and calls no further send (every other
\* position leads to a send); when the send of the heartbeat has failed,
\* the heartbeat has ended.
C19_NoSendAfterDisconnect ==
  [][\A s \in Sessions :
       /\ MainSendFailed(s) => pc[s]' \in NoMoreSends
       /\ HeartbeatSendFailed(s) => ka[s]' = "done"]_vars

\* session s has fetched all rows of the rid it is working on
FetchDone(s) ==
  /\ todo[s] # <<>>
  /\ remote[Rid(s)].rows # <<>>
  /\ \/ loc[s].df = remote[Rid(s)].rows
     \/ loc[s].num > 0 /\ loc[s].i = loc[s].num

\* neither the remote nor the compression can fail
NoFault == ~env.remoteFails /\ ~env.zipFails

\* in this step the version of the fetched rows is in the record and its
\* raw file in the content store, and get() records the checksum
FetchStored(s) ==
  LET sha == ComputeFileSha256(remote[Rid(s)].rows)
  IN  /\ Last(results[s])' = Returned(sha)
      /\ sha \in csv'
      /\ \E i \in 1..Len(ledger'[Rid(s)].versions) :
           ledger'[Rid(s)].versions[i].sha256 = sha

\* C20: when the client of a session is gone and the session has fetched
\* the rows of an identity, with no fault of the remote or of the
\* compression, the processing of that identity ends with the version in
\* the record and its raw file in the content store.
C20_FetchCompletesUnheard ==
  [][\A s \in Sessions :
       ( /\ ~connected[s]
         /\ NoFault
         /\ FetchDone(s)
         /\ Len(results[s])' > Len(results[s]) )
       => FetchStored(s)]_vars

\* the same for a session whose client is there to the end of the step
ConnectedFetchStored ==
  [][\A s \in Sessions :
       ( /\ connected[s]
         /\ NoFault
         /\ FetchDone(s)
         /\ Len(results[s])' > Len(results[s]) )
       => FetchStored(s)]_vars

\* C21: no step takes away a raw file or an archive of the content store,
\* or a record of the ledger: a file that is replaced is replaced in one
\* step, so a reader finds the old or the new file, never none.
C21_ReplacedInOneStep ==
  [][/\ csv \subseteq csv'
     /\ zip \subseteq zip'
     /\ \A r \in Rids : ledger[r].state = "ok" => ledger'[r].state = "ok"]_vars

\* C22: a record that does not parse is not read as an empty record: while
\* a session works on its rid no rows are fetched from the remote and
\* nothing is written to the content store; the record is left as it is,
\* and the identity ends failed.
C22_CorruptRecordHardFailure ==
  [][\A s \in Sessions :
       (todo[s] # <<>> /\ ledger[Rid(s)].state = "corrupt") =>
         /\ hist' = hist
         /\ csv' = csv /\ zip' = zip /\ tmp' = tmp
         /\ ledger' = ledger
         /\ Len(results[s])' > Len(results[s]) => Last(results[s])' = Failed]_vars

\* in this step the "error" event of a session that resolved no name has
\* been delivered
ErrorSent(s) ==
  pc[s] = "send_error" /\ sending[s] /\ ~sending[s]' /\ connected[s]

\* C23: get() goes on to websocket.close(code=1008) after the event of a
\* session-level error, the "error" event of a session that resolved no
\* name included, and from nowhere else.
C23_PolicyCloseOnSessionError ==
  [][\A s \in Sessions :
       /\ ErrorSent(s) => pc[s]' = "close"
       /\ (pc[s] # "close" /\ pc[s]' = "close") =>
            pc[s] \in {"send_error", "exc_final"}]_vars

\* the events of a session of one identity between its acknowledgement and
\* its final event: the events of that identity
IdentityEvents(s) == Len(NonKeepalive(s)) - 2

\* session s has returned, its client there, with the checksum of a version
\* it found in the record of its one identity (nothing fetched)
ServedFromCache(s) ==
  /\ pc[s] = "returned" /\ connected[s]
  /\ Len(req[s].rids) = 1
  /\ Len(results[s]) = 1 /\ results[s][1].ok
  /\ hist.fetches[req[s].rids[1]] = 0

\* C24: an identity served from the cache went from PENDING to
\* RESOLVING_VERSION and, over UNZIPPING or not, to READY: the session has
\* sent an event for each of these transitions, two at least.
C24_EventPerPhase ==
  \A s \in Sessions : ServedFromCache(s) => IdentityEvents(s) >= 2

\* resolution gave session s a version of the rid it is working on
VersionFound(s) == loc[s].version # <<>>

\* the positions of download_dataset
FetchPcs ==
  {"dl_start", "dl_count", "dl_norows", "dl_probe", "dl_batches", "dl_batch",
   "dl_batch_query", "dl_all", "dl_all_query", "dl_written", "dl_done",
   "dl_sha", "dl_unlink", "dl_move", "dl_zip", "dl_zip_ret", "dl_zipfail",
   "dl_fail"}

Ceil(a, b) == (a + b - 1) \div b

\* session s has fetched the last batch of an incremental download
BatchesDone(s) == pc[s] = "dl_done" /\ loc[s].num > 0

\* C26: when an incremental download has fetched its last batch, the
\* batches fetched, at the offsets 0, batchSize, 2*batchSize, ..., number
\* ceil(row_count / batchSize).
C26_BatchCountIsCeil ==
  \A s \in Sessions :
    BatchesDone(s) => loc[s].i = Ceil(loc[s].row_count, DOWNLOAD_BATCHSIZE)

\* C27: the temporary file of an incremental download that has fetched its
\* last batch holds the rows a single SELECT * returns, every row once, and
\* so has the same checksum.
C27_BatchedEqualsSingleShot ==
  \A s \in Sessions :
    BatchesDone(s) =>
      /\ tmp[loc[s].path[1]] = remote[Rid(s)].rows
      /\ ComputeFileSha256(tmp[loc[s].path[1]])
           = ComputeFileSha256(remote[Rid(s)].rows)

\* in this step download_dataset of session s computes its checksum
ChecksumComputed(s) ==
  pc[s] \in FetchPcs /\ loc[s].sha = <<>> /\ loc[s]'.sha # <<>>

\* in this step a raw file of checksum sha comes into the content store
\* from download_dataset of session s
Stored(s, sha) == pc[s] \in FetchPcs /\ sha \notin csv /\ sha \in csv'

\* C28: download_dataset computes its checksum in one step, after the last
\* batch, over the temporary file that holds all the rows of the download;
\* the checksum then stays as it is to the end of the download; a raw file
\* comes into the content store only by the move of that temporary file,
\* under that checksum.
C28_ChecksumOfCompleteFile ==
  [][\A s \in Sessions :
       /\ ChecksumComputed(s) =>
            /\ pc[s] = "dl_sha"
            /\ loc[s].num > 0 => loc[s].i = loc[s].num
            /\ tmp[loc[s].path[1]] = FetchedContent(Rid(s))
            /\ loc[s]'.sha = <<ComputeFileSha256(tmp[loc[s].path[1]])>>
       /\ (pc[s] \in FetchPcs /\ loc[s].sha # <<>>) =>
            \/ loc[s]'.sha = loc[s].sha
            \/ Len(results[s])' > Len(results[s])
       /\ \A sha \in csv' :
            Stored(s, sha) =>
              /\ pc[s] = "dl_move"
              /\ loc[s].sha = <<sha>>
              /\ sha = ComputeFileSha256(tmp[loc[s].path[1]])
              /\ loc[s].path[1] \notin DOMAIN tmp']_vars

\* a download of two batches has moved its file into the content store
\* under the checksum of its three rows
C28_Witness ==
  \E s \in Sessions :
    /\ pc[s] = "dl_zip"
    /\ loc[s].num = 2 /\ loc[s].i = 2
    /\ loc[s].sha = <<ComputeFileSha256(<<1, 2, 3>>)>>
    /\ ComputeFileSha256(<<1, 2, 3>>) \in csv
    /\ ComputeFileSha256(<<1, 2>>) \notin csv

\* C29: once an identity of a session has ended in failure, no temporary
\* file of its rid is left in UNZIPPED_DIR.
C29_NoTempFileAfterAbort ==
  \A s \in Sessions : \A i \in 1..Len(results[s]) :
    ~results[s][i].ok => \A p \in DOMAIN tmp : p[1] # req[s].rids[i]

\* the archive of sha is missing, or holds no .csv entry
Unusable(sha) == sha \notin zip \/ sha \notin entries

\* C30: when _unzip_dataset_sync is run on an archive that is missing or
\* holds no .csv entry, it returns false to its caller (get_single_dataset
\* resumes after the call, nothing was raised through it), the raw files
\* and the archives are as before, and no extraction directory of that
\* checksum is left.
C30_UnusableArchiveFails ==
  [][\A s \in Sessions :
       (pc[s] = "unzip" /\ pc[s]' # "unzip" /\ Unusable(loc[s].sha[1])) =>
         /\ pc[s]' = "unzip_ret"
         /\ ~loc[s]'.ok
         /\ Len(results[s])' = Len(results[s])
         /\ csv' = csv /\ zip' = zip /\ entries' = entries
         /\ loc[s].sha[1] \notin extract']_vars

\* the archive of a version marked only zipped held no .csv entry: the
\* unzip has returned false, the raw file that was there is still there and
\* no extraction directory is left
C30_Witness ==
  \E s \in Sessions :
    /\ pc[s] = "unzip_ret"
    /\ ~loc[s].ok
    /\ loc[s].sha[1] \in zip
    /\ loc[s].sha[1] \notin entries
    /\ loc[s].sha[1] \in csv
    /\ extract = {}

\* C31: every version of every record has at least one date.
C31_DatesNonEmpty ==
  \A r \in Rids : \A i \in 1..Len(ledger[r].versions) :
    ledger[r].versions[i].dates # <<>>

\* a record that held a version has had a second one appended, both dated
C31_Witness ==
  \E r \in Rids :
    /\ Len(hist.appended[r]) = 1
    /\ Len(ledger[r].versions) = 2
    /\ \E i \in 1..2 : ledger[r].versions[i] = hist.appended[r][1]
    /\ \A i \in 1..2 : Len(ledger[r].versions[i].dates) = 1

\* in this step a version is appended to the record of r
Appended(r) == Len(hist.appended[r])' > Len(hist.appended[r])

\* C32: in the step in which a version is appended to a record, the raw
\* file and the archive of its checksum both exist, also while another
\* session fetches the same rows.
C32_BlobsExistAtAppend ==
  [][\A r \in Rids :
       Appended(r) =>
         /\ Last(hist.appended[r])'.sha256 \in csv'
         /\ Last(hist.appended[r])'.sha256 \in zip']_vars

\* download_dataset of session s has chosen its temporary file and has not
\* yet moved it or ended
Writing(s) ==
  /\ pc[s] \in FetchPcs \ {"dl_zip", "dl_zip_ret", "dl_zipfail"}
  /\ loc[s].path # <<>>

\* C33: two sessions whose downloads are both between the choice of the
\* temporary file and its move have chosen different temporary files.
C33_DistinctTempFiles ==
  \A s, o \in Sessions :
    (s # o /\ Writing(s) /\ Writing(o)) => loc[s].path # loc[o].path

\* C34: a session that has sent a "final" event with success true has
\* recorded a checksum for every identity it resolved: no identity of it
\* has failed.
C34_FinalSuccessMeansAllReady ==
  \A s \in Sessions :
    (\E i \in 1..Len(sent[s]) : sent[s][i].type = "final" /\ sent[s][i].success)
      => /\ Len(results[s]) = Len(req[s].rids)
         /\ \A i \in 1..Len(results[s]) : results[s][i].ok

====
